---- MODULE Spec2Model ----
(***************************************************************************)
(* Account timing and token symbol of mina-rs (base/src/account):          *)
(* decoding of a GraphQL JSON document into TimedData / Timing, and the    *)
(* encoding of TimedData, Timing and TokenSymbol into a ChunkedROInput.    *)
(*                                                                         *)
(* Integers wider than TLC's own are kept as little-endian byte tuples:    *)
(* a u64 is 8 bytes, a TokenSymbol 32 bytes, and a field element Fp is its *)
(* little-endian bytes with the trailing zero bytes dropped.               *)
(***************************************************************************)
EXTENDS Integers, Sequences, FiniteSets, TLC

\* ------------------------------------------------------------------ bounds

\* Threads that decode and encode independent values.
NumThreads == 2

\* The small scalars and bytes the inputs are drawn from are 0..MaxSmall.
MaxSmall == 1

Threads == 1..NumThreads

\* ------------------------------------------------------------------- bytes

Zeros(n) == [i \in 1..n |-> 0]

Pad(b, n) == b \o Zeros(n - Len(b))

RECURSIVE Norm(_)
\* A little-endian integer without its trailing (most significant) zero bytes.
Norm(b) ==
    IF Len(b) = 0 \/ b[Len(b)] # 0 THEN b ELSE Norm(SubSeq(b, 1, Len(b) - 1))

RECURSIVE LessLE(_, _, _)
\* a < b for little-endian byte tuples of one length, compared from byte i down.
LessLE(a, b, i) ==
    IF i = 0 THEN FALSE
    ELSE IF a[i] # b[i] THEN a[i] < b[i]
    ELSE LessLE(a, b, i - 1)

\* --------------------------------------------------------- numbers (u64)

\* Amount(pub u64) and BlockTime(pub u64): the byte width of the inner integer.
U64Bytes == 8

u64(k) == Pad(<<k>>, U64Bytes)

U64Max == [i \in 1..U64Bytes |-> 255]

\* 2^32 + k
Two32Plus(k) == <<k, 0, 0, 0, 1, 0, 0, 0>>

\* `x as u32`: the low 32 bits of a u64.
as_u32_wide(x) == x
as_u32(x) == SubSeq(x, 1, 4)

\* ------------------------------------------------------ field elements

\* Fp::from(u64) / Fp::from(u32)
Fp_from(b) == Norm(b)

Fp_zero == <<>>

Fp_one == <<1>>

\* The modulus of mina_hasher::Fp (the Pallas base field), little-endian:
\* 0x40000000000000000000000000000000224698fc094cf91b992d30ed00000001
Fp_MODULUS ==
    <<1, 0, 0, 0, 237, 48, 45, 153, 27, 249, 76, 9, 252, 152, 70, 34,
      0, 0, 0, 0, 0, 0, 0, 0, 0, 0, 0, 0, 0, 0, 0, 64>>

Ok(v) == [ok |-> TRUE, v |-> v]

Err == [ok |-> FALSE, v |-> <<>>]

\* Fp::read of 32 bytes: the little-endian integer, an error unless it is
\* below the modulus.
Fp_read(bytes) ==
    IF LessLE(bytes, Fp_MODULUS, 32) THEN Ok(Norm(bytes)) ELSE Err

\* ------------------------------------------------------ ChunkedROInput

Chunk(f) == [kind |-> "chunk", value |-> f]

Packed(f, w) == [kind |-> "packed", value |-> f, width |-> w]

ChunkedROInput_new == <<>>

append_packed(acc, f, w) == Append(acc, Packed(f, w))

append_u32(acc, x) == append_packed(acc, Fp_from(x), 32)

\* append_chunked(&other): the atoms of other.to_chunked_roinput(), in order.
append_chunked(acc, other) == acc \o other

\* Amount::to_chunked_roinput: one chunk holding the whole amount.
Amount_to_chunked_roinput(a) == <<Chunk(Fp_from(a))>>

\* ------------------------------------------------------------- TimedData

TimedData(imb, ct, ca, vp, vi) ==
    [initial_minimum_balance |-> imb, cliff_time |-> ct, cliff_amount |-> ca,
     vesting_period |-> vp, vesting_increment |-> vi]

\* impl Default for TimedData
TimedData_default_zero_period == TimedData(u64(0), u64(0), u64(0), u64(0), u64(0))
TimedData_default == TimedData(u64(0), u64(0), u64(0), u64(1), u64(0))

\* One builder call of TimedData::to_chunked_roinput: the accumulator after
\* the call on source line `line`.
TimedData_line_swapped(self, acc, line) ==
    CASE line = 47 -> ChunkedROInput_new
      [] line = 48 -> append_chunked(acc, Amount_to_chunked_roinput(self.initial_minimum_balance))
      [] line = 49 -> append_u32(acc, as_u32(self.cliff_time))
      [] line = 50 -> append_chunked(acc, Amount_to_chunked_roinput(self.vesting_increment))
      [] line = 51 -> append_u32(acc, as_u32(self.vesting_period))
      [] line = 52 -> append_chunked(acc, Amount_to_chunked_roinput(self.cliff_amount))
TimedData_line(self, acc, line) ==
    CASE line = 47 -> ChunkedROInput_new
      [] line = 48 -> append_chunked(acc, Amount_to_chunked_roinput(self.initial_minimum_balance))
      [] line = 49 -> append_u32(acc, as_u32(self.cliff_time))
      [] line = 50 -> append_chunked(acc, Amount_to_chunked_roinput(self.cliff_amount))
      [] line = 51 -> append_u32(acc, as_u32(self.vesting_period))
      [] line = 52 -> append_chunked(acc, Amount_to_chunked_roinput(self.vesting_increment))

RECURSIVE TimedData_run(_, _, _)
TimedData_run(self, acc, line) ==
    IF line > 52 THEN acc
    ELSE TimedData_run(self, TimedData_line(self, acc, line), line + 1)

\* TimedData::to_chunked_roinput as one call: lines 47 to 52 in order.
TimedData_to_chunked_roinput(self) == TimedData_run(self, <<>>, 47)

\* ---------------------------------------------------------------- Timing

Untimed == [type |-> "Untimed", data |-> <<>>]

Timed(d) == [type |-> "Timed", data |-> d]

\* One builder call of Timing::to_chunked_roinput that is not a nested call.
Timing_line_same_tag(self, acc, line) ==
    CASE line \in {109, 112} -> ChunkedROInput_new
      [] line = 110 -> append_packed(acc, Fp_one, 1)
      [] line = 113 -> append_packed(acc, Fp_one, 1)
Timing_line(self, acc, line) ==
    CASE line \in {109, 112} -> ChunkedROInput_new
      [] line = 110 -> append_packed(acc, Fp_zero, 1)
      [] line = 113 -> append_packed(acc, Fp_one, 1)

\* The TimedData handed to append_chunked on line 111 or 114.
Timing_payload(self, line) ==
    IF line = 111 THEN TimedData_default ELSE self.data

\* Timing::to_chunked_roinput as one call.
Timing_to_chunked_roinput(self) ==
    LET first == IF self.type = "Untimed" THEN 109 ELSE 112
        a1 == Timing_line(self, <<>>, first)
        a2 == Timing_line(self, a1, first + 1)
    IN  append_chunked(a2, TimedData_to_chunked_roinput(Timing_payload(self, first + 2)))

\* ----------------------------------------------------------- TokenSymbol

max_length == 6

num_bits_no_factor == max_length
num_bits == 8 * max_length

\* bytes[..max_length].copy_from_slice(&self.0[..max_length])
copy_prefix_whole(bytes, self) == self
copy_prefix(bytes, self) ==
    [i \in 1..32 |-> IF i <= max_length THEN self[i] ELSE bytes[i]]

\* TokenSymbol::to_chunked_roinput as one call: the atoms, or a panic of
\* the unwrap on line 31.
TokenSymbol_to_chunked_roinput(self) ==
    LET bytes == copy_prefix(Zeros(32), self)
        f == Fp_read(bytes)
    IN  IF f.ok THEN Ok(append_packed(ChunkedROInput_new, f.v, num_bits)) ELSE Err

\* ------------------------------------------------- str::parse::<u64>()

\* A string is the tuple of its characters.
DigitChars == <<"0", "1", "2", "3", "4", "5", "6", "7", "8", "9">>

IsDigit(c) == \E i \in 1..10 : DigitChars[i] = c

DigitVal(c) == (CHOOSE i \in 1..10 : DigitChars[i] = c) - 1

RECURSIVE MulAdd(_, _, _, _)
\* x * m + c from byte i on: the bytes of the result, then the carry out.
MulAdd(x, m, c, i) ==
    IF i > Len(x) THEN <<c>>
    ELSE LET p == x[i] * m + c
         IN  <<p % 256>> \o MulAdd(x, m, p \div 256, i + 1)

RECURSIVE parse_digits(_, _, _)
\* result = result.checked_mul(10)?.checked_add(digit)? for each character.
parse_digits(s, i, result) ==
    IF i > Len(s) THEN Ok(result)
    ELSE IF ~IsDigit(s[i]) THEN Err
    ELSE LET mul == MulAdd(result, 10, 0, 1)
             add == MulAdd(SubSeq(mul, 1, U64Bytes), 1, DigitVal(s[i]), 1)
         IN  IF mul[U64Bytes + 1] # 0 \/ add[U64Bytes + 1] # 0 THEN Err
             ELSE parse_digits(s, i + 1, SubSeq(add, 1, U64Bytes))

\* u64::from_str: empty is an error, a lone sign is an error, a leading "+"
\* is skipped, a leading "-" is an invalid digit of an unsigned type.
parse(s) ==
    IF Len(s) = 0 THEN Err
    ELSE IF Len(s) = 1 /\ s[1] \in {"+", "-"} THEN Err
    ELSE IF s[1] = "+" THEN parse_digits(s, 2, u64(0))
    ELSE parse_digits(s, 1, u64(0))

\* ------------------------------------------------------ serde_json::Value

\* A document is what json[key] yields for each key: Null when the key is
\* absent (or json is no object), else the value under the key.
Keys ==
    {"initialMinimumBalance", "cliffTime", "cliffAmount", "vestingPeriod",
     "vestingIncrement"}

JNull == [t |-> "null", s |-> <<>>]

JNumber == [t |-> "number", s |-> <<>>]

JString(s) == [t |-> "string", s |-> s]

\* json[key].as_str().unwrap_or_default()
as_str_unwrap_or_default(v) == IF v.t = "string" THEN v.s ELSE <<>>

\* impl FromGraphQLJson for TimedData: the fields are parsed in order and the
\* first failure is returned by `?`.
TimedData_from_graphql_json_wrong_key(json) ==
    LET imb == parse(as_str_unwrap_or_default(json["initialMinimumBalance"]))
        ct == parse(as_str_unwrap_or_default(json["cliffTime"]))
        ca == parse(as_str_unwrap_or_default(json["cliffTime"]))
        vp == parse(as_str_unwrap_or_default(json["vestingPeriod"]))
        vi == parse(as_str_unwrap_or_default(json["vestingIncrement"]))
    IN  IF ~imb.ok THEN Err
        ELSE IF ~ct.ok THEN Err
        ELSE IF ~ca.ok THEN Err
        ELSE IF ~vp.ok THEN Err
        ELSE IF ~vi.ok THEN Err
        ELSE Ok(TimedData(imb.v, ct.v, ca.v, vp.v, vi.v))
TimedData_from_graphql_json(json) ==
    LET imb == parse(as_str_unwrap_or_default(json["initialMinimumBalance"]))
        ct == parse(as_str_unwrap_or_default(json["cliffTime"]))
        ca == parse(as_str_unwrap_or_default(json["cliffAmount"]))
        vp == parse(as_str_unwrap_or_default(json["vestingPeriod"]))
        vi == parse(as_str_unwrap_or_default(json["vestingIncrement"]))
    IN  IF ~imb.ok THEN Err
        ELSE IF ~ct.ok THEN Err
        ELSE IF ~ca.ok THEN Err
        ELSE IF ~vp.ok THEN Err
        ELSE IF ~vi.ok THEN Err
        ELSE Ok(TimedData(imb.v, ct.v, ca.v, vp.v, vi.v))

\* impl FromGraphQLJson for Timing
Timing_from_graphql_json_default_on_error(json) ==
    LET r == TimedData_from_graphql_json(json)
    IN  Ok(IF r.ok THEN Timed(r.v) ELSE Timed(TimedData_default))
Timing_from_graphql_json(json) ==
    LET r == TimedData_from_graphql_json(json)
    IN  Ok(IF r.ok THEN Timed(r.v) ELSE Untimed)

\* ----------------------------------------------------------------- inputs

Amounts == {u64(k) : k \in 0..MaxSmall} \cup {U64Max}

BlockTimes == {u64(k) : k \in 0..MaxSmall} \cup {Two32Plus(k) : k \in 0..MaxSmall}

TimedDataValues ==
    [initial_minimum_balance : Amounts, cliff_time : BlockTimes,
     cliff_amount : Amounts, vesting_period : BlockTimes,
     vesting_increment : Amounts]

Prefixes ==
    {Pad(<<k>>, 6) : k \in 0..MaxSmall}
        \cup {<<77, 73, 78, 65, 0, 0>>, <<255, 255, 255, 255, 255, 255>>}

Tails ==
    {Zeros(26), [i \in 1..26 |-> 255], Pad(<<1>>, 26),
     [i \in 1..26 |-> IF i = 26 THEN 64 ELSE 0]}

TokenSymbolValues == {p \o q : p \in Prefixes, q \in Tails}

\* The values a version-converted record gives (AutoFrom).
Values ==
    {[type |-> "TimedData", data |-> d] : d \in TimedDataValues}
        \cup {Untimed}
        \cup {Timed(d) : d \in TimedDataValues}
        \cup {[type |-> "TokenSymbol", data |-> b] : b \in TokenSymbolValues}

StrU64Max ==
    <<"1", "8", "4", "4", "6", "7", "4", "4", "0", "7",
      "3", "7", "0", "9", "5", "5", "1", "6", "1", "5">>

StrU64Over ==
    <<"1", "8", "4", "4", "6", "7", "4", "4", "0", "7",
      "3", "7", "0", "9", "5", "5", "1", "6", "1", "6">>

DocStrings ==
    {<<DigitChars[k + 1]>> : k \in 0..MaxSmall}
        \cup {<<"+", "1">>, <<"-", "1">>, StrU64Max, StrU64Over}

JsonFields == {JNull, JNumber} \cup {JString(s) : s \in DocStrings}

Docs == [Keys -> JsonFields]

\* The values the threads of the concurrent specification encode: the
\* schedule {5, 10, 2, 3, 1}, both Timing variants and one token symbol.
ConcValues ==
    LET d == TimedData(u64(5), u64(10), u64(2), u64(3), u64(1))
    IN  {[type |-> "TimedData", data |-> d], Untimed, Timed(d),
         [type |-> "TokenSymbol", data |-> <<77, 73, 78, 65, 0, 0>> \o [i \in 1..26 |-> 255]]}

\* ------------------------------------------------------------------ state

VARIABLES
    pc,      \* per thread: where it is in the life of one value
    doc,     \* per thread: <<T, json>> of its call T::from_graphql_json(&json), else <<>>
    val,     \* per thread: the value it holds, [type, data]
    stack,   \* per thread: the frames of its to_chunked_roinput calls
    out      \* per thread: the ChunkedROInput its outermost call returned

vars == <<pc, doc, val, stack, out>>

NoVal == [type |-> "None", data |-> <<>>]

\* A frame of to_chunked_roinput: `line` is the source line to run next, acc
\* the ChunkedROInput the builder chain owns, bytes and f the locals of
\* TokenSymbol's.
Frame(fn, self, line) ==
    [fn |-> fn, self |-> self, line |-> line, acc |-> <<>>, bytes |-> <<>>, f |-> <<>>]

Top(t) == stack[t][Len(stack[t])]

\* The stacks after thread t's running frame becomes fr: a frame, with its
\* accumulator, belongs to one call of one thread.
SetTop_shared_acc(t, fr) ==
    [u \in Threads |->
        IF u = t THEN [stack[t] EXCEPT ![Len(stack[t])] = fr]
        ELSE IF Len(stack[u]) > 0
             THEN [stack[u] EXCEPT ![Len(stack[u])].acc = fr.acc]
             ELSE stack[u]]
SetTop(t, fr) ==
    [stack EXCEPT ![t] = [stack[t] EXCEPT ![Len(stack[t])] = fr]]

Init ==
    /\ pc = [t \in Threads |-> "idle"]
    /\ doc = [t \in Threads |-> <<>>]
    /\ val = [t \in Threads |-> NoVal]
    /\ stack = [t \in Threads |-> <<>>]
    /\ out = [t \in Threads |-> <<>>]

\* --------------------------------------------------------------- actions

\* A value converted from a versioned record (#[auto_from]).
From(t, S) ==
    /\ pc[t] = "idle"
    /\ pc' = [pc EXCEPT ![t] = "ready"]
    /\ \E v \in S : val' = [val EXCEPT ![t] = v]
    /\ UNCHANGED <<doc, stack, out>>

\* T::from_graphql_json(&json) is called, T one of TimedData and Timing.
Call_from_graphql_json(t) ==
    /\ pc[t] = "idle"
    /\ pc' = [pc EXCEPT ![t] = "from_graphql_json"]
    /\ \E ty \in {"TimedData", "Timing"}, json \in Docs :
            doc' = [doc EXCEPT ![t] = <<ty, json>>]
    /\ UNCHANGED <<val, stack, out>>

TimedData_from_graphql_json_return(t) ==
    /\ pc[t] = "from_graphql_json"
    /\ doc[t][1] = "TimedData"
    /\ LET r == TimedData_from_graphql_json(doc[t][2])
       IN  IF r.ok
           THEN /\ pc' = [pc EXCEPT ![t] = "ready"]
                /\ val' = [val EXCEPT ![t] = [type |-> "TimedData", data |-> r.v]]
           ELSE /\ pc' = [pc EXCEPT ![t] = "failed"]
                /\ val' = val
    /\ UNCHANGED <<doc, stack, out>>

Timing_from_graphql_json_return(t) ==
    /\ pc[t] = "from_graphql_json"
    /\ doc[t][1] = "Timing"
    /\ LET r == Timing_from_graphql_json(doc[t][2])
       IN  IF r.ok
           THEN /\ pc' = [pc EXCEPT ![t] = "ready"]
                /\ val' = [val EXCEPT ![t] = r.v]
           ELSE /\ pc' = [pc EXCEPT ![t] = "failed"]
                /\ val' = val
    /\ UNCHANGED <<doc, stack, out>>

\* value.to_chunked_roinput() is called on the value the thread holds; a
\* document it was decoded from is no longer borrowed.
Call_to_chunked_roinput(t) ==
    /\ pc[t] = "ready"
    /\ pc' = [pc EXCEPT ![t] = "to_chunked_roinput"]
    /\ stack' = [stack EXCEPT ![t] =
            CASE val[t].type = "TimedData" -> <<Frame("TimedData", val[t].data, 47)>>
              [] val[t].type = "TokenSymbol" -> <<Frame("TokenSymbol", val[t].data, 28)>>
              [] OTHER -> <<Frame("Timing", val[t], 108)>>]
    /\ doc' = [doc EXCEPT ![t] = <<>>]
    /\ UNCHANGED <<val, out>>

Running(t, fn) ==
    /\ pc[t] = "to_chunked_roinput"
    /\ Len(stack[t]) > 0
    /\ Top(t).fn = fn

\* One builder call of TimedData::to_chunked_roinput, lines 47 to 52.
TimedData_step(t) ==
    /\ Running(t, "TimedData")
    /\ Top(t).line \in 47..52
    /\ stack' = SetTop(t, [Top(t) EXCEPT
            !.acc = TimedData_line(Top(t).self, Top(t).acc, Top(t).line),
            !.line = Top(t).line + 1])
    /\ UNCHANGED <<pc, doc, val, out>>

\* Timing::to_chunked_roinput: the match on line 108, then new() and
\* append_packed of the chosen arm.
Timing_step(t) ==
    /\ Running(t, "Timing")
    /\ Top(t).line \in {108, 109, 110, 112, 113}
    /\ stack' = SetTop(t,
            IF Top(t).line = 108
            THEN [Top(t) EXCEPT !.line = IF Top(t).self.type = "Untimed" THEN 109 ELSE 112]
            ELSE [Top(t) EXCEPT
                    !.acc = Timing_line(Top(t).self, Top(t).acc, Top(t).line),
                    !.line = Top(t).line + 1])
    /\ UNCHANGED <<pc, doc, val, out>>

\* Lines 111 and 114: append_chunked calls to_chunked_roinput of its argument.
Timing_call(t) ==
    /\ Running(t, "Timing")
    /\ Top(t).line \in {111, 114}
    /\ stack' = [stack EXCEPT ![t] =
            Append(stack[t], Frame("TimedData", Timing_payload(Top(t).self, Top(t).line), 47))]
    /\ UNCHANGED <<pc, doc, val, out>>

\* TokenSymbol::to_chunked_roinput, lines 28 to 32; the unwrap on line 31
\* panics on a read error.
TokenSymbol_step(t) ==
    /\ Running(t, "TokenSymbol")
    /\ Top(t).line \in {28, 30, 31, 32}
    /\ LET fr == Top(t)
           r == Fp_read(fr.bytes)
       IN  IF fr.line = 31 /\ ~r.ok
           THEN /\ pc' = [pc EXCEPT ![t] = "panicked"]
                /\ stack' = [stack EXCEPT ![t] = <<>>]
           ELSE /\ pc' = pc
                /\ stack' = SetTop(t,
                     CASE fr.line = 28 -> [fr EXCEPT !.bytes = Zeros(32), !.line = 30]
                       [] fr.line = 30 -> [fr EXCEPT !.bytes = copy_prefix(fr.bytes, fr.self), !.line = 31]
                       [] fr.line = 31 -> [fr EXCEPT !.f = r.v, !.line = 32]
                       [] fr.line = 32 -> [fr EXCEPT
                            !.acc = append_packed(ChunkedROInput_new, fr.f, num_bits),
                            !.line = 33])
    /\ UNCHANGED <<doc, val, out>>

ReturnLine(fn) ==
    CASE fn = "TimedData" -> 53
      [] fn = "Timing" -> 116
      [] fn = "TokenSymbol" -> 33

\* A call returns its accumulator: to append_chunked of the calling frame,
\* which appends it and is itself at its end, or to the thread.
Return(t) ==
    /\ pc[t] = "to_chunked_roinput"
    /\ Len(stack[t]) > 0
    /\ Top(t).line = ReturnLine(Top(t).fn)
    /\ IF Len(stack[t]) = 1
       THEN /\ out' = [out EXCEPT ![t] = Top(t).acc]
            /\ stack' = [stack EXCEPT ![t] = <<>>]
            /\ pc' = [pc EXCEPT ![t] = "done"]
       ELSE LET n == Len(stack[t])
                caller == stack[t][n - 1]
            IN  /\ stack' = [stack EXCEPT ![t] =
                        Append(SubSeq(stack[t], 1, n - 2),
                               [caller EXCEPT
                                    !.acc = append_chunked(caller.acc, Top(t).acc),
                                    !.line = ReturnLine(caller.fn)])]
                /\ UNCHANGED <<out, pc>>
    /\ UNCHANGED <<doc, val>>

\* The value is consumed (or the error surfaced) and the thread starts over.
Reset(t) ==
    /\ pc[t] \in {"done", "failed", "panicked"}
    /\ pc' = [pc EXCEPT ![t] = "idle"]
    /\ doc' = [doc EXCEPT ![t] = <<>>]
    /\ val' = [val EXCEPT ![t] = NoVal]
    /\ out' = [out EXCEPT ![t] = <<>>]
    /\ UNCHANGED stack

Encode(t) ==
    \/ Call_to_chunked_roinput(t)
    \/ TimedData_step(t)
    \/ Timing_step(t)
    \/ Timing_call(t)
    \/ TokenSymbol_step(t)
    \/ Return(t)
    \/ Reset(t)

\* One thread takes values from records and from documents.
Next ==
    \/ From(1, Values)
    \/ Call_from_graphql_json(1)
    \/ TimedData_from_graphql_json_return(1)
    \/ Timing_from_graphql_json_return(1)
    \/ Encode(1)

Spec == Init /\ [][Next]_vars

\* Every thread encodes values of its own, the steps interleaved.
NextConc ==
    \E t \in Threads :
        \/ From(t, ConcValues)
        \/ Encode(t)

SpecConc == Init /\ [][NextConc]_vars

\* ----------------------------------------------------------------- claims

\* x mod 2^32 of a u64 x: its four low bytes.
Low32(x) == [i \in 1..4 |-> x[i]]

\* Section 4.2 of the specification: the five atoms of a schedule d.
ScheduleAtoms(d) ==
    <<Chunk(Fp_from(d.initial_minimum_balance)),
      Packed(Fp_from(Low32(d.cliff_time)), 32),
      Chunk(Fp_from(d.cliff_amount)),
      Packed(Fp_from(Low32(d.vesting_period)), 32),
      Chunk(Fp_from(d.vesting_increment))>>

Done(t, types) == pc[t] = "done" /\ val[t].type \in types

\* C1: to_chunked_roinput of every TimedData emits exactly five atoms, in
\* the order chunk(initialMinimumBalance), packed(cliffTime mod 2^32, 32),
\* chunk(cliffAmount), packed(vestingPeriod mod 2^32, 32),
\* chunk(vestingIncrement), none omitted, duplicated or reordered.
C1_FiveAtomsInOrder ==
    \A t \in Threads :
        Done(t, {"TimedData"}) =>
            /\ Len(out[t]) = 5
            /\ out[t] = ScheduleAtoms(val[t].data)

\* A schedule whose five fields all differ, the times above 32 bits, has
\* been encoded.
C1_Witness ==
    \E t \in Threads :
        /\ Done(t, {"TimedData"})
        /\ val[t].data = TimedData(U64Max, Two32Plus(1), u64(1), Two32Plus(0), u64(0))

\* C2: the Timing encoder emits exactly 6 atoms of the same kinds and widths
\* for both variants: packed(0, 1) for Untimed and packed(1, 1) for Timed,
\* then five schedule atoms, those of s for Timed(s).
C2_SixAtomsSameShape ==
    \A t \in Threads :
        Done(t, {"Untimed", "Timed"}) =>
            /\ Len(out[t]) = 6
            /\ out[t][1] = Packed(IF val[t].type = "Untimed" THEN Fp_zero ELSE Fp_one, 1)
            /\ \A i \in {2, 4, 6} : out[t][i].kind = "chunk"
            /\ \A i \in {3, 5} : out[t][i].kind = "packed" /\ out[t][i].width = 32
            /\ val[t].type = "Timed" => SubSeq(out[t], 2, 6) = ScheduleAtoms(val[t].data)

\* Timed(s) of a schedule s that is not the default has been encoded.
C2_Witness ==
    \E t \in Threads :
        /\ Done(t, {"Timed"})
        /\ val[t].data = TimedData(u64(1), Two32Plus(1), U64Max, u64(0), u64(1))
        /\ Len(out[t]) = 6

\* The atoms of the default schedule: every field 0 but vestingPeriod = 1.
DefaultAtoms ==
    <<Chunk(<<>>), Packed(<<>>, 32), Chunk(<<>>), Packed(<<1>>, 32), Chunk(<<>>)>>

\* C3: encode(Untimed) is packed(0, 1) followed by the atoms of the default
\* schedule, never less, and encode(Timed(default schedule)) is packed(1, 1)
\* followed by the same five atoms.
C3_UntimedIsTaggedDefault ==
    \A t \in Threads :
        /\ Done(t, {"Untimed"}) => out[t] = <<Packed(<<>>, 1)>> \o DefaultAtoms
        /\ (/\ Done(t, {"Timed"})
            /\ val[t].data = TimedData(u64(0), u64(0), u64(0), u64(1), u64(0)))
                => out[t] = <<Packed(<<1>>, 1)>> \o DefaultAtoms

\* Untimed has been encoded.
C3_Witness == \E t \in Threads : Done(t, {"Untimed"}) /\ Len(out[t]) > 0

\* A decimal integer, as from_str reads it: an optional "+", then one or more
\* decimal digits.
IsDecimal(s) ==
    LET from == IF Len(s) > 0 /\ s[1] = "+" THEN 2 ELSE 1
    IN  /\ Len(s) >= from
        /\ \A i \in from..Len(s) : IsDigit(s[i])

\* The digits of a decimal integer, without its sign and leading zeros.
RECURSIVE Significant(_)
Significant(s) ==
    IF Len(s) > 1 /\ s[1] \in {"+", "0"} THEN Significant(Tail(s))
    ELSE IF s = <<"+">> THEN <<>>
    ELSE s

RECURSIVE DigitsLeq(_, _, _)
\* a <= b for digit strings of one length, compared from digit i on.
DigitsLeq(a, b, i) ==
    IF i > Len(a) THEN TRUE
    ELSE IF a[i] # b[i] THEN DigitVal(a[i]) < DigitVal(b[i])
    ELSE DigitsLeq(a, b, i + 1)

\* The decimal integer s is at most 2^64 - 1 = 18446744073709551615.
FitsU64(s) ==
    LET d == Significant(s)
    IN  \/ Len(d) < Len(StrU64Max)
        \/ Len(d) = Len(StrU64Max) /\ DigitsLeq(d, StrU64Max, 1)

\* The integer a decimal string of the documents denotes, as a u64.
Denoted(s) ==
    CASE s = StrU64Max -> U64Max
      [] s = <<"+", "1">> -> u64(1)
      [] Len(s) = 1 -> u64(CHOOSE k \in 0..9 : DigitChars[k + 1] = s[1])

\* The value under a key is a string holding a decimal integer ...
ValidAnyMagnitude(v) == v.t = "string" /\ IsDecimal(v.s)

\* ... one that fits the u64 of Amount and BlockTime.
ValidU64(v) == v.t = "string" /\ IsDecimal(v.s) /\ FitsU64(v.s)

FieldsDenoted(d, json) ==
    /\ d.initial_minimum_balance = Denoted(json["initialMinimumBalance"].s)
    /\ d.cliff_time = Denoted(json["cliffTime"].s)
    /\ d.cliff_amount = Denoted(json["cliffAmount"].s)
    /\ d.vesting_period = Denoted(json["vestingPeriod"].s)
    /\ d.vesting_increment = Denoted(json["vestingIncrement"].s)

\* Thread t's call T::from_graphql_json has returned.
Decoded(t, ty) ==
    /\ pc[t] \in {"ready", "failed"}
    /\ doc[t] # <<>>
    /\ doc[t][1] = ty

\* C4 as stated: decoding into Timing never fails, gives Timed with every
\* field the value under its key when all five keys hold decimal strings (of
\* any magnitude), and Untimed when a key is absent or fails to parse.
C4_AsStated ==
    \A t \in Threads :
        Decoded(t, "Timing") =>
            /\ pc[t] = "ready"
            /\ (\A k \in Keys : ValidAnyMagnitude(doc[t][2][k]))
                    => val[t].type = "Timed" /\ FieldsDenoted(val[t].data, doc[t][2])
            /\ (\E k \in Keys : ~ValidAnyMagnitude(doc[t][2][k])) => val[t] = Untimed

\* C4, amended: decoding into Timing never fails; it gives Timed, every field
\* the value under its own key, when all five keys hold decimal strings that
\* fit a u64, and Untimed in every other case: no Timed value mixes parsed
\* and defaulted fields.
C4_AllOrNothing ==
    \A t \in Threads :
        Decoded(t, "Timing") =>
            /\ pc[t] = "ready"
            /\ (\A k \in Keys : ValidU64(doc[t][2][k]))
                    => val[t].type = "Timed" /\ FieldsDenoted(val[t].data, doc[t][2])
            /\ (\E k \in Keys : ~ValidU64(doc[t][2][k])) => val[t] = Untimed

\* A document without the vestingPeriod key, its other four keys valid, has
\* been decoded into Timing.
C4_Witness ==
    \E t \in Threads :
        /\ Decoded(t, "Timing")
        /\ doc[t][2]["vestingPeriod"] = JNull
        /\ \A k \in Keys \ {"vestingPeriod"} : ValidU64(doc[t][2][k])
        /\ val[t] = Untimed

\* C5 as stated: decoding into TimedData fails if and only if a key is
\* missing, is no string or holds no decimal integer (of any magnitude), and
\* otherwise every field is the value under its own key; decoding into
\* Timing gives Timed(d) or Untimed as the direct decoding gives Ok(d) or fails.
C5_AsStated ==
    \A t \in Threads :
        /\ Decoded(t, "TimedData") =>
            /\ pc[t] = "failed" <=> \E k \in Keys : ~ValidAnyMagnitude(doc[t][2][k])
            /\ pc[t] = "ready" => FieldsDenoted(val[t].data, doc[t][2])
        /\ Decoded(t, "Timing") =>
            LET direct == TimedData_from_graphql_json(doc[t][2])
            IN  val[t] = IF direct.ok THEN Timed(direct.v) ELSE Untimed

\* C5, amended: decoding into TimedData fails if and only if a key is
\* missing, is no string or holds no decimal integer that fits a u64;
\* otherwise every field is the value under its own key. Decoding the same
\* document into Timing gives Timed(d) exactly when the direct decoding
\* gives Ok(d), and Untimed exactly when it fails.
C5_FailsIffInvalid ==
    \A t \in Threads :
        /\ Decoded(t, "TimedData") =>
            /\ pc[t] = "failed" <=> \E k \in Keys : ~ValidU64(doc[t][2][k])
            /\ pc[t] = "ready" =>
                /\ val[t].type = "TimedData"
                /\ FieldsDenoted(val[t].data, doc[t][2])
        /\ Decoded(t, "Timing") =>
            LET direct == TimedData_from_graphql_json(doc[t][2])
            IN  /\ pc[t] = "ready"
                /\ direct.ok <=> val[t].type = "Timed"
                /\ ~direct.ok <=> val[t] = Untimed
                /\ direct.ok => val[t].data = direct.v

\* A document whose five keys hold different valid strings, one with a "+"
\* and one the largest u64, has been decoded into TimedData.
C5_Witness ==
    \E t \in Threads :
        /\ Decoded(t, "TimedData")
        /\ pc[t] = "ready"
        /\ doc[t][2]["initialMinimumBalance"] = JString(StrU64Max)
        /\ doc[t][2]["cliffTime"] = JString(<<"+", "1">>)
        /\ doc[t][2]["cliffAmount"] = JString(<<"0">>)
        /\ val[t].data = TimedData(U64Max, u64(1), u64(0), u64(1), u64(0))

\* C6: the packed vestingPeriod atom of an encoded schedule or Timing is
\* never 0, whatever schedule reached the encoder.
C6_VestingPeriodNeverZero ==
    \A t \in Threads :
        /\ Done(t, {"TimedData"}) => out[t][4].value # Fp_zero
        /\ Done(t, {"Untimed", "Timed"}) => out[t][5].value # Fp_zero

\* C7: the atom of a TokenSymbol depends only on the first 6 of its 32
\* bytes: every buffer with the same bytes 0..5 encodes to the same atom.
C7_OnlyPrefixMatters ==
    \A t \in Threads :
        Done(t, {"TokenSymbol"}) =>
            \A b \in TokenSymbolValues :
                SubSeq(b, 1, 6) = SubSeq(val[t].data, 1, 6)
                    => TokenSymbol_to_chunked_roinput(b) = Ok(out[t])

\* A buffer with non-zero bytes both below and above index 6 has been encoded.
C7_Witness ==
    \E t \in Threads :
        /\ Done(t, {"TokenSymbol"})
        /\ val[t].data[1] = 77
        /\ val[t].data[7] = 1
        /\ Len(out[t]) = 1

\* The five schedule atoms in what thread t's finished call returned.
ScheduleOut(t) == IF val[t].type = "Timed" THEN SubSeq(out[t], 2, 6) ELSE out[t]

\* C8: the packed atoms of cliffTime and vestingPeriod carry the value mod
\* 2^32, so schedules that differ only by multiples of 2^32 in these fields
\* encode to the same atoms, while each chunk holds its amount whole.
C8_TimesTruncatedAmountsWhole ==
    \A t \in Threads :
        Done(t, {"TimedData", "Timed"}) =>
            LET d == val[t].data
                a == ScheduleOut(t)
            IN  /\ a[2] = Packed(Fp_from(Low32(d.cliff_time)), 32)
                /\ a[4] = Packed(Fp_from(Low32(d.vesting_period)), 32)
                /\ Len(a[2].value) <= 4 /\ Len(a[4].value) <= 4
                /\ Pad(a[1].value, U64Bytes) = d.initial_minimum_balance
                /\ Pad(a[3].value, U64Bytes) = d.cliff_amount
                /\ Pad(a[5].value, U64Bytes) = d.vesting_increment
                /\ \A e \in TimedDataValues :
                    (/\ e.initial_minimum_balance = d.initial_minimum_balance
                     /\ e.cliff_amount = d.cliff_amount
                     /\ e.vesting_increment = d.vesting_increment
                     /\ Low32(e.cliff_time) = Low32(d.cliff_time)
                     /\ Low32(e.vesting_period) = Low32(d.vesting_period))
                        => TimedData_to_chunked_roinput(e) = a

\* Timed(s) has been encoded, both times of s above 2^32 and an amount of
\* s above 2^32.
C8_Witness ==
    \E t \in Threads :
        /\ Done(t, {"Timed"})
        /\ val[t].data.cliff_time = Two32Plus(1)
        /\ val[t].data.vesting_period = Two32Plus(1)
        /\ val[t].data.cliff_amount = U64Max
        /\ out[t][3].value = <<1>>

\* C9: the token-symbol encoder never fails: the buffer read on line 31 is
\* the first 6 bytes and 26 zero bytes, which is below the modulus, and the
\* call returns one packed atom of width 48 = 8 * 6 whose value is that
\* 6-byte integer, below 2^48.
C9_TokenSymbolTotal ==
    \A t \in Threads :
        /\ pc[t] # "panicked"
        /\ (Running(t, "TokenSymbol") /\ Top(t).line = 31) =>
            /\ Top(t).bytes = SubSeq(Top(t).self, 1, 6) \o Zeros(26)
            /\ LessLE(Top(t).bytes, Fp_MODULUS, 32)
        /\ Done(t, {"TokenSymbol"}) =>
            /\ Len(out[t]) = 1
            /\ out[t][1].kind = "packed"
            /\ out[t][1].width = 48
            /\ Len(out[t][1].value) <= 6
            /\ Pad(out[t][1].value, 6) = SubSeq(val[t].data, 1, 6)

\* A buffer that is itself above the modulus has been encoded.
C9_Witness ==
    \E t \in Threads :
        /\ Done(t, {"TokenSymbol"})
        /\ ~LessLE(val[t].data, Fp_MODULUS, 32)
        /\ val[t].data[6] = 255

\* What to_chunked_roinput of v returns when nothing else runs.
Alone(v) ==
    CASE v.type = "TimedData" -> TimedData_to_chunked_roinput(v.data)
      [] v.type = "TokenSymbol" -> TokenSymbol_to_chunked_roinput(v.data).v
      [] OTHER -> Timing_to_chunked_roinput(v)

C10_Results ==
    \A t \in Threads :
        pc[t] = "done" =>
            /\ out[t] = Alone(val[t])
            /\ \A u \in Threads :
                (pc[u] = "done" /\ val[u].type = val[t].type /\ val[u].data = val[t].data)
                    => out[u] = out[t]

C10_Steps ==
    \A t \in Threads :
        /\ pc[t] \in {"ready", "to_chunked_roinput"} => val'[t] = val[t]
        /\ stack'[t] # stack[t] =>
            \A u \in Threads \ {t} : stack'[u] = stack[u] /\ out'[u] = out[u]

\* C10: with the steps of several encoding calls interleaved, each call
\* appends to its own accumulator only and leaves its input unchanged, and
\* returns the atoms it returns when run alone; encoding one value twice
\* gives the same atoms.
C10_IsolatedEncoding == [](C10_Results) /\ [][C10_Steps]_vars

\* One thread has finished encoding a Timing while another is in the middle
\* of encoding a schedule.
C10_Witness ==
    /\ Done(1, {"Timed"})
    /\ Running(2, "TimedData")
    /\ Len(Top(2).acc) = 3

====
